---- MODULE Spec2Model ----
(***************************************************************************)
(* gulp-newer: a transform stream that passes through only the source      *)
(* files that are newer than their destination.  The model follows the     *)
(* synchronous implementation with the helpers _getDestStats,              *)
(* _specialStat, _isNewer and _bufferPush.                                 *)
(*                                                                         *)
(* JavaScript values are modelled as follows.  A string is a sequence of   *)
(* one-character strings; an absent (undefined) string option is the empty *)
(* sequence, which the code treats the same way (both are falsy).  null    *)
(* and undefined objects are the record Null.  An fs.Stats object is a     *)
(* record with kind "Stats".  An array is a record with kind "Array".      *)
(***************************************************************************)
EXTENDS Integers, Sequences, FiniteSets, TLC

\* ------------------------------------------------------------------------
\* Bounds
\* ------------------------------------------------------------------------

\* longest sequence of files written to the stream
MaxFiles == 3

\* longest sequence of files of a run that is replayed
TwinFiles == 2

\* timestamps are 1..MaxTime
MaxTime == 2

Time == 1 .. MaxTime

\* ------------------------------------------------------------------------
\* Values
\* ------------------------------------------------------------------------

Null == [kind |-> "null"]

NoString == << >>

\* fs.Stats of a file or a directory.  The records the model draws from
\* order the files one way by mtime and the other way by ctime, so that the
\* timestamp field that is read makes a difference.
Stats(dir, m, c) == [kind |-> "Stats", isDir |-> dir, mtime |-> m, ctime |-> c]

FileStats == { Stats(FALSE, t, MaxTime + 1 - t) : t \in Time }

DirStats == Stats(TRUE, 1, 1)

\* an error thrown by fs.statSync: code is "ENOENT" or "EACCES"
StatError(code) == [kind |-> "Error", code |-> code]

\* ------------------------------------------------------------------------
\* Paths (node's path module, posix flavour) and strings
\* ------------------------------------------------------------------------

Max(S) == CHOOSE m \in S : \A n \in S : n <= m

Min(S) == CHOOSE m \in S : \A n \in S : m <= n

\* String.prototype.lastIndexOf for one character, 1-based, 0 when absent
LastIndexOf(s, ch) ==
    LET idx == { i \in 1 .. Len(s) : s[i] = ch }
    IN  IF idx = {} THEN 0 ELSE Max(idx)

\* path.extname: the part of the basename from its last "." on; empty when
\* there is no ".", when the only "." is the first character of the
\* basename, and for the basename "..".  (Paths here have no trailing "/".)
extname(p) ==
    LET startPart == LastIndexOf(p, "/") + 1
        dots      == { i \in startPart .. Len(p) : p[i] = "." }
        startDot  == IF dots = {} THEN 0 ELSE Max(dots)
    IN  IF \/ startDot = 0
           \/ startDot = startPart
           \/ /\ startDot = Len(p)
              /\ startDot = startPart + 1
              /\ p[startPart] = "."
        THEN << >>
        ELSE SubSeq(p, startDot, Len(p))

\* a plausible slip: the extension is appended instead of replacing
replaceExtensionAppend(file, ext) ==
    IF ext = NoString THEN file ELSE file \o ext

replaceExtension(file, ext) ==
    IF ext = NoString
    THEN file
    ELSE LET original == extname(file)
             noExt    == SubSeq(file, 1, Len(file) - Len(original))
         IN  noExt \o ext

\* the segments of a path between "/" characters
RECURSIVE Split(_)
Split(p) ==
    LET slashes == { i \in 1 .. Len(p) : p[i] = "/" }
    IN  IF slashes = {}
        THEN << p >>
        ELSE LET i == Min(slashes)
             IN  << SubSeq(p, 1, i - 1) >> \o Split(SubSeq(p, i + 1, Len(p)))

\* normalizeString of path.normalize: drops empty and "." segments and
\* resolves ".." against the segment before it
RECURSIVE NormalizeSegs(_, _, _)
NormalizeSegs(segs, acc, isAbs) ==
    IF segs = << >>
    THEN acc
    ELSE LET s    == Head(segs)
             rest == Tail(segs)
         IN  IF s = << >> \/ s = << "." >>
             THEN NormalizeSegs(rest, acc, isAbs)
             ELSE IF s = << ".", "." >>
             THEN IF acc # << >> /\ acc[Len(acc)] # << ".", "." >>
                  THEN NormalizeSegs(rest, SubSeq(acc, 1, Len(acc) - 1), isAbs)
                  ELSE IF isAbs
                       THEN NormalizeSegs(rest, acc, isAbs)
                       ELSE NormalizeSegs(rest, Append(acc, s), isAbs)
             ELSE NormalizeSegs(rest, Append(acc, s), isAbs)

RECURSIVE JoinSegs(_)
JoinSegs(segs) ==
    IF segs = << >>
    THEN << >>
    ELSE IF Len(segs) = 1
         THEN Head(segs)
         ELSE Head(segs) \o << "/" >> \o JoinSegs(Tail(segs))

\* path.normalize (paths here have no trailing "/")
normalize(p) ==
    LET isAbs == p # << >> /\ p[1] = "/"
        body  == JoinSegs(NormalizeSegs(Split(p), << >>, isAbs))
    IN  IF isAbs
        THEN << "/" >> \o body
        ELSE IF body = << >> THEN << "." >> ELSE body

\* path.join of two arguments: the non-empty ones are glued with "/" and the
\* result is normalized
join(a, b) ==
    IF a = << >> /\ b = << >>
    THEN << "." >>
    ELSE IF a = << >> THEN normalize(b)
    ELSE IF b = << >> THEN normalize(a)
    ELSE normalize(a \o << "/" >> \o b)

\* String.prototype.replace(pattern, by) with a string pattern: the first
\* occurrence only
Replace(s, pat, by) ==
    LET occ == { i \in 1 .. (Len(s) - Len(pat) + 1) :
                     SubSeq(s, i, i + Len(pat) - 1) = pat }
    IN  IF occ = {}
        THEN s
        ELSE LET i == Min(occ)
             IN  SubSeq(s, 1, i - 1) \o by \o SubSeq(s, i + Len(pat), Len(s))

\* ------------------------------------------------------------------------
\* Inputs: options, source files, file system
\* ------------------------------------------------------------------------

\* the dest option of the runs: "d"
DestPath == << "d" >>

\* the ext option of the runs: ".y"
ExtY == << ".", "y" >>

\* relative paths of the source files, by arrival (reused cyclically)
SrcNames == << << "a", ".", "x" >>, << "b" >>, << "c", ".", "x" >> >>

SrcName(i) == SrcNames[((i - 1) % Len(SrcNames)) + 1]

\* options.map functions of the runs.  "rename" and "join" are the mapping
\* functions of the test suite, "suffix" appends ".m", "absolute" returns
\* the absolute path "/o/" + p.
ApplyMap(map, p) ==
    CASE map = "rename" -> Replace(p, << ".", "x" >>, << ".", "y" >>)
      [] map = "join"   -> join(DestPath, Replace(p, << ".", "x" >>, << ".", "y" >>))
      [] map = "suffix" -> p \o << ".", "m" >>
      [] map = "absolute" -> << "/", "o", "/" >> \o p
      [] OTHER          -> p

\* the option records the runs are built with; the last one is invalid
\* (neither dest nor map)
OptionShapes ==
    { [dest |-> DestPath, ext |-> NoString, map |-> "none"],
      [dest |-> DestPath, ext |-> ExtY,     map |-> "none"],
      [dest |-> DestPath, ext |-> NoString, map |-> "rename"],
      [dest |-> DestPath, ext |-> ExtY,     map |-> "suffix"],
      [dest |-> NoString, ext |-> NoString, map |-> "join"],
      [dest |-> NoString, ext |-> ExtY,     map |-> "none"] }

\* what fs.statSync finds at a path
StatOutcomes == FileStats \cup { StatError("ENOENT"), StatError("EACCES") }

\* what fs.statSync finds at options.dest
DestOutcomes == StatOutcomes \cup { DirStats }

\* the lists of stat results of the files matched by options.extra, in glob
\* order; an entry is a Stats record, an error that carries a path, or an
\* error that carries none
ExtraOutcomeLists ==
    { << >> }
    \cup { << s >> : s \in FileStats }
    \cup { << s, t >> : s \in FileStats, t \in FileStats }
    \cup { << [kind |-> "Error", path |-> << "e" >>] >>,
           << [kind |-> "Error", path |-> NoString] >> }

\* a vinyl file as written to the stream: relative path and stat (or Null)
SrcFile(i, st) == [relative |-> SrcName(i), stat |-> st]

PluginError(msg) == [kind |-> "PluginError", message |-> msg]

\* no file at all: _transform called with undefined
NoFile == [kind |-> "undefined", relative |-> NoString, stat |-> Null]

\* what the "data" handler of the consumer throws on file i
ConsumerError(i) == [kind |-> "ConsumerError", file |-> i]

\* ------------------------------------------------------------------------
\* Option values as the caller passes them
\* ------------------------------------------------------------------------

Array(items) == [kind |-> "Array", items |-> items]

Str(chars) == [kind |-> "string", chars |-> chars]

Num(value) == [kind |-> "number", value |-> value]

Fn(name) == [kind |-> "function", name |-> name]

Obj == [kind |-> "object"]

Bool(value) == [kind |-> "boolean", value |-> value]

\* the truth value of v in a condition: undefined, 0 and "" are falsy;
\* arrays, objects and functions are truthy
Truthy(v) ==
    CASE v.kind = "null"    -> FALSE
      [] v.kind = "boolean" -> v.value
      [] v.kind = "string"  -> v.chars # << >>
      [] v.kind = "number"  -> v.value # 0
      [] OTHER              -> TRUE

\* typeof v
typeof(v) ==
    CASE v.kind = "null"  -> "undefined"
      [] v.kind = "Array" -> "object"
      [] OTHER            -> v.kind

\* an options object
Options(dest, ext, map, extra, ctime) ==
    [kind |-> "options", dest |-> dest, ext |-> ext, map |-> map,
     extra |-> extra, ctime |-> ctime]

\* options[name]: a property of a value that is not an options object is
\* undefined
Field(options, name) ==
    IF options.kind = "options" THEN options[name] ELSE Null

\* the options object of an option record of OptionShapes
ShapeOptions(shape, extra, ctime) ==
    Options(IF shape.dest = NoString THEN Null ELSE Str(shape.dest),
            IF shape.ext = NoString THEN Null ELSE Str(shape.ext),
            IF shape.map = "none" THEN Null ELSE Fn(shape.map),
            extra, ctime)

\* the extra pattern of the runs
ExtraPattern == << "e" >>

\* ------------------------------------------------------------------------
\* State
\* ------------------------------------------------------------------------

VARIABLES
    _dest,            \* Newer._dest
    _ext,             \* Newer._ext
    _map,             \* Newer._map
    _timestamp,       \* Newer._timestamp: "ctime" or "mtime"
    _destStats,       \* Newer._destStats
    _extraStats,      \* Newer._extraStats
    _bufferedFiles,   \* Newer._bufferedFiles: Null or an array of arrival indices
    _all,             \* Newer._all
    status,           \* "open", "ended", "errored", "thrown", "failed"
    received,         \* the files written to the stream, in arrival order
    emitted,          \* arrival indices of the files pushed downstream, in order
    errors,           \* errors surfaced: by done(err), by a throw, by the constructor
    fs,               \* the stat results seen so far, by path (the snapshot)
    last,             \* what the last _transform call computed
    signals,          \* the 'error' events the consumer received, in order
    delivered,        \* the files the consumer received, as received, in order
    callbacks,        \* the calls of the callback of _transform: file and error
    consumer,         \* arrival indices of the files whose "data" handler throws
    args,             \* the constructor's arguments, where a run records them
    prior             \* the finished first run, where a run is replayed

vars == << _dest, _ext, _map, _timestamp, _destStats, _extraStats,
           _bufferedFiles, _all, status, received, emitted, errors, fs, last,
           signals, delivered, callbacks, consumer, args, prior >>

NoCall == [kind |-> "none"]

\* ------------------------------------------------------------------------
\* Construction
\* ------------------------------------------------------------------------

\* the result of a call: a returned value or a thrown error
Return(v) == [threw |-> FALSE, value |-> v]

Throw(e) == [threw |-> TRUE, error |-> e]

\* the exported factory: a string becomes { dest: string }
factory(options) ==
    IF typeof(options) = "string"
    THEN Options(options, Null, Null, Null, Null)
    ELSE options

\* a plausible slip: the test that one of dest and map is given is left out
_checkOptionsNoEither(options) ==
    LET dest  == Field(options, "dest")
        ext   == Field(options, "ext")
        map   == Field(options, "map")
        extra == Field(options, "extra")
    IN  IF ~Truthy(options)
        THEN PluginError("Requires a dest string or options object")
        ELSE IF Truthy(dest) /\ typeof(dest) # "string"
        THEN PluginError("Requires a dest string")
        ELSE IF Truthy(ext) /\ typeof(ext) # "string"
        THEN PluginError("Requires ext to be a string")
        ELSE IF Truthy(map) /\ typeof(map) # "function"
        THEN PluginError("Requires map to be a function")
        ELSE IF Truthy(extra) /\ typeof(extra) # "string" /\ extra.kind # "Array"
        THEN PluginError("Requires options.extra to be a string or array")
        ELSE Null

\* Newer._checkOptions: Null when the options pass, the PluginError thrown
\* otherwise
_checkOptions(options) ==
    LET dest  == Field(options, "dest")
        ext   == Field(options, "ext")
        map   == Field(options, "map")
        extra == Field(options, "extra")
    IN  IF ~Truthy(options)
        THEN PluginError("Requires a dest string or options object")
        ELSE IF Truthy(dest) /\ typeof(dest) # "string"
        THEN PluginError("Requires a dest string")
        ELSE IF Truthy(ext) /\ typeof(ext) # "string"
        THEN PluginError("Requires ext to be a string")
        ELSE IF Truthy(map) /\ typeof(map) # "function"
        THEN PluginError("Requires map to be a function")
        ELSE IF ~Truthy(dest) /\ ~Truthy(map)
        THEN PluginError("Requires either options.dest or options.map or both")
        ELSE IF Truthy(extra) /\ typeof(extra) # "string" /\ extra.kind # "Array"
        THEN PluginError("Requires options.extra to be a string or array")
        ELSE Null

\* options.extra as Newer._checkOptions leaves it: a string is wrapped in an
\* array
normalizedExtra(extra) ==
    IF Truthy(extra) /\ typeof(extra) = "string"
    THEN Array(<< extra >>)
    ELSE extra

\* a plausible slip: only the matches of the first pattern are kept
allFilesFirstPattern(patterns, globbed, i) ==
    IF patterns = << >>
    THEN Return(<< >>)
    ELSE IF typeof(patterns[1]) # "string"
    THEN Throw([kind |-> "TypeError"])
    ELSE Return(globbed[1])

\* the first two loops of Newer._getExtraStats: glob.sync for each pattern,
\* then the concatenation of the matches.  globbed[i] is the list of the
\* stat results of the files pattern i matches; glob.sync throws a
\* TypeError for a pattern that is not a string.
RECURSIVE allFiles(_, _, _)
allFiles(patterns, globbed, i) ==
    IF i > Len(patterns)
    THEN Return(<< >>)
    ELSE IF typeof(patterns[i]) # "string"
    THEN Throw([kind |-> "TypeError"])
    ELSE LET rest == allFiles(patterns, globbed, i + 1)
         IN  IF rest.threw
             THEN rest
             ELSE Return(globbed[i] \o rest.value)

\* a plausible slip: a later stat replaces the one kept when it is as great
RECURSIVE LatestStatNonStrict(_, _, _, _)
LatestStatNonStrict(extraStats, j, latestStat, timestamp) ==
    IF j > Len(extraStats)
    THEN latestStat
    ELSE IF extraStats[j][timestamp] >= latestStat[timestamp]
         THEN LatestStatNonStrict(extraStats, j + 1, extraStats[j], timestamp)
         ELSE LatestStatNonStrict(extraStats, j + 1, latestStat, timestamp)

\* the loop that keeps the latest of the stats: a later one replaces the
\* one kept only when strictly greater
RECURSIVE LatestStat(_, _, _, _)
LatestStat(extraStats, j, latestStat, timestamp) ==
    IF j > Len(extraStats)
    THEN latestStat
    ELSE IF extraStats[j][timestamp] > latestStat[timestamp]
         THEN LatestStat(extraStats, j + 1, extraStats[j], timestamp)
         ELSE LatestStat(extraStats, j + 1, latestStat, timestamp)

\* a plausible slip: with no file matched the watermark is set, to a time
\* later than any file's
_getExtraStatsEmptyNewest(results, timestamp) ==
    LET failing == { i \in 1 .. Len(results) : results[i].kind = "Error" }
    IN  IF failing # {}
        THEN LET error == results[Min(failing)]
             IN  IF error.path # NoString
                 THEN Throw([kind |-> "PluginError",
                             message |-> "Failed to read stats for an extra file: ",
                             path |-> error.path])
                 ELSE Throw(PluginError("Failed to stat extra files; unknown error: "))
        ELSE IF results = << >>
             THEN Return(Stats(FALSE, MaxTime + 1, MaxTime + 1))
             ELSE Return(LatestStat(results, 2, results[1], timestamp))

\* a plausible slip: a matched file that cannot be stat'ed is left out
_getExtraStatsSkipFailed(results, timestamp) ==
    LET stated == SelectSeq(results, LAMBDA r : r.kind # "Error")
    IN  IF stated = << >>
        THEN Return(Null)
        ELSE Return(LatestStat(stated, 2, stated[1], timestamp))

\* a plausible slip: the latest extra file is always chosen by its mtime
_getExtraStatsMtime(results, timestamp) ==
    LET failing == { i \in 1 .. Len(results) : results[i].kind = "Error" }
    IN  IF failing # {}
        THEN LET error == results[Min(failing)]
             IN  IF error.path # NoString
                 THEN Throw([kind |-> "PluginError",
                             message |-> "Failed to read stats for an extra file: ",
                             path |-> error.path])
                 ELSE Throw(PluginError("Failed to stat extra files; unknown error: "))
        ELSE IF results = << >>
             THEN Return(Null)
             ELSE Return(LatestStat(results, 2, results[1], "mtime"))

\* the stat loop and the watermark of Newer._getExtraStats: results is the
\* list of what fs.statSync finds for the matched files.  The first failing
\* stat throws; with no file matched extraStats[0] is undefined.
_getExtraStats(results, timestamp) ==
    LET failing == { i \in 1 .. Len(results) : results[i].kind = "Error" }
    IN  IF failing # {}
        THEN LET error == results[Min(failing)]
             IN  IF error.path # NoString
                 THEN Throw([kind |-> "PluginError",
                             message |-> "Failed to read stats for an extra file: ",
                             path |-> error.path])
                 ELSE Throw(PluginError("Failed to stat extra files; unknown error: "))
        ELSE IF results = << >>
             THEN Return(Null)
             ELSE Return(LatestStat(results, 2, results[1], timestamp))

\* fs.statSync(dest, { throwIfNoEntry: false }): undefined when nothing is
\* there
statSyncNoThrow(found) ==
    IF found.kind = "Error"
    THEN IF found.code = "ENOENT" THEN Return(Null) ELSE Throw(found)
    ELSE Return(found)

\* the constructor called with options: found is what is at options.dest,
\* globbed the matches of the extra patterns.  failure is the error thrown
\* (Null when an engine is built), the other fields are the engine's.
constructor(options, found, globbed) ==
    LET checked == _checkOptions(options)
        dest    == Field(options, "dest")
        ext     == Field(options, "ext")
        map     == Field(options, "map")
        extra   == normalizedExtra(Field(options, "extra"))
        ts      == IF Truthy(Field(options, "ctime")) THEN "ctime" ELSE "mtime"
        dstat   == IF checked = Null /\ Truthy(dest)
                   THEN statSyncNoThrow(found)
                   ELSE Return(Null)
        files   == IF checked = Null /\ Truthy(extra)
                   THEN allFiles(extra.items, globbed, 1)
                   ELSE Return(<< >>)
        estat   == IF files.threw
                   THEN files
                   ELSE IF checked = Null /\ Truthy(extra)
                   THEN _getExtraStats(files.value, ts)
                   ELSE Return(Null)
        failure == IF checked # Null THEN checked
                   ELSE IF dstat.threw THEN dstat.error
                   ELSE IF estat.threw THEN estat.error
                   ELSE Null
    IN  IF failure # Null
        THEN [failure |-> failure, _dest |-> NoString, _ext |-> NoString,
              _map |-> "none", _timestamp |-> "mtime", _destStats |-> Null,
              _extraStats |-> Null, fs |-> << >>]
        ELSE [failure |-> Null,
              _dest |-> IF Truthy(dest) THEN dest.chars ELSE NoString,
              _ext |-> IF Truthy(ext) THEN ext.chars ELSE NoString,
              _map |-> IF Truthy(map) THEN map.name ELSE "none",
              _timestamp |-> ts,
              _destStats |-> dstat.value,
              _extraStats |-> estat.value,
              fs |-> IF Truthy(dest) THEN (dest.chars :> found) ELSE << >>]

\* the state a constructor call leaves: engine the result of constructor,
\* throwing the files whose "data" handler throws, recorded the arguments
\* kept for the properties
Constructed(engine, throwing, recorded) ==
    /\ _dest = engine._dest
    /\ _ext = engine._ext
    /\ _map = engine._map
    /\ _timestamp = engine._timestamp
    /\ _destStats = engine._destStats
    /\ _extraStats = engine._extraStats
    /\ _bufferedFiles = Null
    /\ _all = FALSE
    /\ status = IF engine.failure = Null THEN "open" ELSE "failed"
    /\ received = << >>
    /\ emitted = << >>
    /\ errors = IF engine.failure = Null THEN << >> ELSE << engine.failure >>
    /\ fs = engine.fs
    /\ last = NoCall
    /\ signals = << >>
    /\ delivered = << >>
    /\ callbacks = << >>
    /\ consumer = throwing
    /\ args = recorded
    /\ prior = Null

\* the engine as the constructor leaves it: shape the options, ctime the
\* ctime option, found what is at options.dest, extra Null (no extra option)
\* or the array of the stat results of the files the extra pattern matches
Init ==
    \E shape \in OptionShapes, ctime \in BOOLEAN,
       found \in DestOutcomes, extra \in { Null } \cup { Array(l) : l \in ExtraOutcomeLists } :
        LET options == ShapeOptions(shape,
                                    IF extra = Null THEN Null ELSE Str(ExtraPattern),
                                    Bool(ctime))
            globbed == IF extra = Null THEN << >> ELSE << extra.items >>
        IN  Constructed(constructor(factory(options), found, globbed), {}, Null)

\* ------------------------------------------------------------------------
\* Per-file processing
\* ------------------------------------------------------------------------

\* a plausible slip: decisions persist across runs, and a file is not newer
\* once an earlier engine has gone through the sequence
_isNewerPersisted(dest, src) ==
    LET ts == _timestamp
    IN  IF prior # Null
        THEN Return(FALSE)
        ELSE IF _extraStats # Null /\ dest = Null
        THEN Throw([kind |-> "TypeError"])
        ELSE IF _extraStats # Null /\ _extraStats[ts] > dest[ts]
        THEN Return(TRUE)
        ELSE IF dest = Null
        THEN Return(TRUE)
        ELSE Return(src[ts] > dest[ts])

\* a plausible slip: the comparison of the source is not strict
_isNewerNonStrict(dest, src) ==
    LET ts == _timestamp
    IN  IF _extraStats # Null /\ dest = Null
        THEN Throw([kind |-> "TypeError"])
        ELSE IF _extraStats # Null /\ _extraStats[ts] > dest[ts]
        THEN Return(TRUE)
        ELSE IF dest = Null
        THEN Return(TRUE)
        ELSE Return(src[ts] >= dest[ts])

\* a plausible slip: the extra watermark is not consulted
_isNewerNoExtra(dest, src) ==
    LET ts == _timestamp
    IN  IF dest = Null
        THEN Return(TRUE)
        ELSE Return(src[ts] > dest[ts])

\* Newer._isNewer: dest is the destination's Stats or Null, src the source's
\* Stats.  With an extra watermark the first test reads dest[ts], which
\* throws a TypeError when dest is null or undefined.
_isNewer(dest, src) ==
    LET ts == _timestamp
    IN  IF _extraStats # Null /\ dest = Null
        THEN Throw([kind |-> "TypeError"])
        ELSE IF _extraStats # Null /\ _extraStats[ts] > dest[ts]
        THEN Return(TRUE)
        ELSE IF dest = Null
        THEN Return(TRUE)
        ELSE Return(src[ts] > dest[ts])

\* a plausible slip: the map function is applied before the extension is
\* replaced
destFileJoinedMapFirst(srcFile) ==
    LET relative          == srcFile.relative
        mapped            == IF _map # "none"
                             THEN ApplyMap(_map, relative)
                             ELSE relative
        destFileRelative  == replaceExtension(mapped, _ext)
    IN  IF _dest # NoString
        THEN join(_dest, destFileRelative)
        ELSE destFileRelative

\* the path Newer._specialStat stats for srcFile
destFileJoined(srcFile) ==
    LET relative          == srcFile.relative
        replaced          == replaceExtension(relative, _ext)
        destFileRelative  == IF _map # "none"
                             THEN ApplyMap(_map, replaced)
                             ELSE replaced
    IN  IF _dest # NoString
        THEN join(_dest, destFileRelative)
        ELSE destFileRelative

\* Newer._specialStat: found is what fs.statSync finds at the path
_specialStat(srcFile, found) ==
    IF found.kind = "Error"
    THEN IF found.code # "ENOENT" THEN Throw(found) ELSE Return(Null)
    ELSE Return(found)

\* the test of Newer._getDestStats: compare each file with its own
\* destination
perFileMode ==
    LET destDirectory == _destStats # Null /\ _destStats.isDir
    IN  destDirectory \/ _ext # NoString \/ _map # "none"

\* a plausible slip: the shared destination is stat'ed again for every file
_getDestStatsRestat(srcFile, found) ==
    IF perFileMode
    THEN [stat |-> _specialStat(srcFile, found), buffer |-> _bufferedFiles]
    ELSE [stat |-> statSyncNoThrow(fs[_dest]),
          buffer |-> IF _bufferedFiles = Null THEN Array(<< >>) ELSE _bufferedFiles]

\* a plausible slip: the buffer is never allocated, so that every file is
\* decided on its own in shared-destination mode too
_getDestStatsNoBuffer(srcFile, found) ==
    IF perFileMode
    THEN [stat |-> _specialStat(srcFile, found), buffer |-> _bufferedFiles]
    ELSE [stat |-> Return(_destStats), buffer |-> _bufferedFiles]

\* Newer._getDestStats: the destination's Stats (or Null) and the buffer as
\* the call leaves it
_getDestStats(srcFile, found) ==
    IF perFileMode
    THEN [stat |-> _specialStat(srcFile, found), buffer |-> _bufferedFiles]
    ELSE [stat |-> Return(_destStats),
          buffer |-> IF _bufferedFiles = Null THEN Array(<< >>) ELSE _bufferedFiles]

\* a plausible slip: the latch is not consulted, and a file that is not
\* newer is held back also after the buffer was released
_bufferPushNoLatch(buffer, srcFile, newer) ==
    IF ~newer
    THEN [buffer |-> IF buffer # Null
                     THEN Array(Append(buffer.items, srcFile))
                     ELSE buffer,
          all |-> _all, pushed |-> << >>]
    ELSE IF buffer = Null
    THEN [buffer |-> buffer, all |-> _all, pushed |-> << srcFile >>]
    ELSE [buffer |-> Array(<< >>), all |-> TRUE,
          pushed |-> buffer.items \o << srcFile >>]

\* a plausible slip: the first newer file sets the latch but the buffered
\* files are dropped instead of being pushed
_bufferPushNoFlush(buffer, srcFile, newer) ==
    IF _all
    THEN [buffer |-> buffer, all |-> _all, pushed |-> << srcFile >>]
    ELSE IF ~newer
    THEN [buffer |-> IF buffer # Null
                     THEN Array(Append(buffer.items, srcFile))
                     ELSE buffer,
          all |-> _all, pushed |-> << >>]
    ELSE IF buffer = Null
    THEN [buffer |-> buffer, all |-> _all, pushed |-> << srcFile >>]
    ELSE [buffer |-> Array(<< >>), all |-> TRUE, pushed |-> << srcFile >>]

\* a plausible slip: the current file is pushed before the buffered files
_bufferPushCurrentFirst(buffer, srcFile, newer) ==
    IF _all
    THEN [buffer |-> buffer, all |-> _all, pushed |-> << srcFile >>]
    ELSE IF ~newer
    THEN [buffer |-> IF buffer # Null
                     THEN Array(Append(buffer.items, srcFile))
                     ELSE buffer,
          all |-> _all, pushed |-> << >>]
    ELSE IF buffer = Null
    THEN [buffer |-> buffer, all |-> _all, pushed |-> << srcFile >>]
    ELSE [buffer |-> Array(<< >>), all |-> TRUE,
          pushed |-> << srcFile >> \o buffer.items]

\* a plausible slip: the buffered files are pushed at the first newer file
\* but the buffer is not emptied
_bufferPushKeepHeld(buffer, srcFile, newer) ==
    IF _all
    THEN [buffer |-> buffer, all |-> _all, pushed |-> << srcFile >>]
    ELSE IF ~newer
    THEN [buffer |-> IF buffer # Null
                     THEN Array(Append(buffer.items, srcFile))
                     ELSE buffer,
          all |-> _all, pushed |-> << >>]
    ELSE IF buffer = Null
    THEN [buffer |-> buffer, all |-> _all, pushed |-> << srcFile >>]
    ELSE [buffer |-> buffer, all |-> TRUE,
          pushed |-> buffer.items \o << srcFile >>]

\* Newer._bufferPush: the buffer, the latch and the files pushed downstream
\* after the call
_bufferPush(buffer, srcFile, newer) ==
    IF _all
    THEN [buffer |-> buffer, all |-> _all, pushed |-> << srcFile >>]
    ELSE IF ~newer
    THEN [buffer |-> IF buffer # Null
                     THEN Array(Append(buffer.items, srcFile))
                     ELSE buffer,
          all |-> _all, pushed |-> << >>]
    ELSE IF buffer = Null
    THEN [buffer |-> buffer, all |-> _all, pushed |-> << srcFile >>]
    ELSE [buffer |-> Array(<< >>), all |-> TRUE,
          pushed |-> buffer.items \o << srcFile >>]

\* a plausible slip: the catch block swallows what the "data" handler
\* throws instead of emitting it
RECURSIVE pushSwallow(_, _, _)
pushSwallow(pushed, out, sigs) ==
    IF pushed = << >>
    THEN [emitted |-> out, signals |-> sigs]
    ELSE pushSwallow(Tail(pushed), Append(out, Head(pushed)), sigs)

\* a plausible slip: one try/catch around the whole flush, so that the
\* first throw of the "data" handler ends the pushes of the call
RECURSIVE pushInterrupted(_, _, _)
pushInterrupted(pushed, out, sigs) ==
    IF pushed = << >>
    THEN [emitted |-> out, signals |-> sigs]
    ELSE LET chunk == Head(pushed)
             got   == Append(out, chunk)
         IN  IF chunk \in consumer
             THEN [emitted |-> got,
                   signals |-> Append(sigs, [error |-> ConsumerError(chunk),
                                             after |-> Len(got)])]
             ELSE pushInterrupted(Tail(pushed), got, sigs)

\* the push override, called for each of pushed in turn: super.push hands
\* the file to the "data" handler, and what the handler throws is caught
\* and emitted as an 'error' event.  out and sigs are the files and the
\* error events the consumer has received.
RECURSIVE push(_, _, _)
push(pushed, out, sigs) ==
    IF pushed = << >>
    THEN [emitted |-> out, signals |-> sigs]
    ELSE LET chunk == Head(pushed)
             got   == Append(out, chunk)
         IN  IF chunk \in consumer
             THEN push(Tail(pushed), got,
                       Append(sigs, [error |-> ConsumerError(chunk),
                                     after |-> Len(got)]))
             ELSE push(Tail(pushed), got, sigs)

\* a plausible slip: the file pushed is renamed to its destination
pushedFilesRenamed(pushed, srcFile) ==
    [k \in 1 .. Len(pushed) |->
        LET file == IF pushed[k] = Len(received) + 1
                    THEN srcFile
                    ELSE received[pushed[k]]
        IN  [file EXCEPT !.relative = destFileJoined(file)]]

\* the chunks Newer._bufferPush hands to push, for the arrival indices
\* pushed: the file of the call itself and the files held in the buffer,
\* as they were written
pushedFiles(pushed, srcFile) ==
    [k \in 1 .. Len(pushed) |->
        IF pushed[k] = Len(received) + 1 THEN srcFile ELSE received[pushed[k]]]

\* a plausible slip: the error is dropped and the stream goes on with the
\* next file
doneSkip(err) ==
    [status |-> status, errors |-> errors, signals |-> signals]

\* the transform callback called with an error: the stream fails, the
\* consumer receives one 'error' event and no further file is processed
done(err) ==
    [status |-> "errored",
     errors |-> Append(errors, err),
     signals |-> Append(signals, [error |-> err, after |-> Len(emitted)])]

\* Newer._transform for srcFile, the next file written to the stream
\* (NoFile when none is passed).  A file is identified by its arrival index
\* in the buffer and in the output.
_transform(srcFile) ==
    /\ status = "open"
    /\ Len(received) < MaxFiles
    /\ LET i    == Len(received) + 1
           path == destFileJoined(srcFile)
       IN  /\ received' = Append(received, srcFile)
           /\ IF srcFile = NoFile \/ srcFile.stat = Null
              THEN LET called == done(PluginError("Expected a source file with stats"))
                   IN  /\ status' = called.status
                       /\ errors' = called.errors
                       /\ signals' = called.signals
                       /\ last' = [kind |-> "transform", file |-> i, step |-> "stats"]
                       /\ callbacks' = Append(callbacks,
                              [file |-> i,
                               error |-> PluginError("Expected a source file with stats")])
                       /\ UNCHANGED << _bufferedFiles, _all, emitted, delivered, fs >>
              ELSE \E found \in IF ~perFileMode THEN { StatError("ENOENT") }
                                ELSE IF path \in DOMAIN fs THEN { fs[path] }
                                ELSE StatOutcomes :
                     /\ fs' = IF perFileMode THEN (path :> found) @@ fs ELSE fs
                     /\ LET got == _getDestStats(srcFile, found)
                        IN  IF got.stat.threw
                            THEN /\ status' = "thrown"
                                 /\ errors' = Append(errors, got.stat.error)
                                 /\ last' = [kind |-> "transform", file |-> i,
                                             step |-> "stat", path |-> path]
                                 /\ _bufferedFiles' = got.buffer
                                 /\ UNCHANGED << _all, emitted, signals, delivered, callbacks >>
                            ELSE LET destStats == got.stat.value
                                     newer     == _isNewer(destStats, srcFile.stat)
                                 IN  IF newer.threw
                                     THEN /\ status' = "thrown"
                                          /\ errors' = Append(errors, newer.error)
                                          /\ last' = [kind |-> "transform", file |-> i,
                                                      step |-> "newer",
                                                      path |-> IF perFileMode THEN path ELSE _dest,
                                                      dest |-> destStats]
                                          /\ _bufferedFiles' = got.buffer
                                          /\ UNCHANGED << _all, emitted, signals, delivered, callbacks >>
                                     ELSE LET after == _bufferPush(got.buffer, i, newer.value)
                                              sent  == push(after.pushed, emitted, signals)
                                          IN  /\ _bufferedFiles' = after.buffer
                                              /\ _all' = after.all
                                              /\ emitted' = sent.emitted
                                              /\ signals' = sent.signals
                                              /\ delivered' = delivered
                                                     \o pushedFiles(after.pushed, srcFile)
                                              /\ last' = [kind |-> "transform", file |-> i,
                                                          step |-> "done",
                                                          path |-> IF perFileMode THEN path ELSE _dest,
                                                          dest |-> destStats,
                                                          newer |-> newer.value]
                                              /\ callbacks' = Append(callbacks,
                                                                      [file |-> i, error |-> Null])
                                              /\ UNCHANGED << status, errors >>
    /\ UNCHANGED << _dest, _ext, _map, _timestamp, _destStats, _extraStats,
                    consumer, args, prior >>

\* Newer._flush, at the end of the stream
_flush ==
    /\ status = "open"
    /\ _bufferedFiles' = Null
    /\ status' = "ended"
    /\ UNCHANGED << _dest, _ext, _map, _timestamp, _destStats, _extraStats,
                    _all, received, emitted, errors, fs, last,
                    signals, delivered, callbacks, consumer, args, prior >>

\* the files that may be written next
Incoming ==
    { SrcFile(Len(received) + 1, stat) : stat \in FileStats \cup { Null } }
    \cup { NoFile }

Next ==
    \/ \E srcFile \in Incoming : _transform(srcFile)
    \/ _flush

Spec == Init /\ [][Next]_vars

\* the runs with a consumer whose "data" handler throws on some files:
\* the engine as the constructor leaves it, with or without an extra file
InitFaults ==
    \E shape \in OptionShapes, found \in DestOutcomes,
       extra \in { Null, Str(ExtraPattern) },
       throwing \in SUBSET (1 .. MaxFiles) \ { {} } :
        LET options == ShapeOptions(shape, extra, Null)
            globbed == IF extra = Null
                       THEN << >>
                       ELSE << << Stats(FALSE, MaxTime, MaxTime) >> >>
        IN  Constructed(constructor(factory(options), found, globbed),
                        throwing, Null)

SpecFaults == InitFaults /\ [][Next]_vars

\* the values passed for the options: of the declared type, of another
\* type (truthy or falsy), or not at all
DestValues == { Null, Str(DestPath), Num(1), Num(0), Obj }

ExtValues == { Null, Str(ExtY), Num(1), Num(0) }

MapValues == { Null, Fn("rename"), Str(<< "b", "a", "r" >>), Num(1) }

ExtraValues ==
    { Null, Str(ExtraPattern), Array(<< >>), Array(<< Str(ExtraPattern) >>),
      Array(<< Str(ExtraPattern), Str(ExtraPattern) >>),
      Array(<< Num(1) >>), Num(1), Num(0), Obj }

\* what the factory is called with: nothing, a number, a string, or an
\* options object in which at most one of ext and extra is given
ConfigOptions ==
    { Null, Num(123), Str(DestPath), Str(<< >>) }
    \cup { Options(dest, ext, map, extra, Null) :
              dest \in DestValues, ext \in ExtValues, map \in MapValues,
              extra \in { Null } }
    \cup { Options(dest, ext, map, extra, Null) :
              dest \in DestValues, ext \in { Null }, map \in MapValues,
              extra \in ExtraValues }

\* the path of a second extra file
OtherExtra == << "f" >>

\* the stat results of the files one extra pattern matches: no file, a file
\* that is stat'ed, or a file whose stat fails with an error that carries
\* the file's path or no path
PatternMatches ==
    { << >> }
    \cup { << s >> : s \in FileStats }
    \cup { << [kind |-> "Error", path |-> ExtraPattern] >>,
           << [kind |-> "Error", path |-> OtherExtra] >>,
           << [kind |-> "Error", path |-> NoString] >> }

\* the matches of the patterns of options.extra, one list for each pattern
Globbed(options) ==
    LET extra == normalizedExtra(Field(options, "extra"))
    IN  IF extra.kind = "Array"
        THEN [1 .. Len(extra.items) -> PatternMatches]
        ELSE { << >> }

\* the runs that record what the engine was built from
InitConfig ==
    \E passed \in ConfigOptions :
        LET options == factory(passed)
        IN  \E found \in IF Field(options, "dest").kind = "string"
                          THEN DestOutcomes
                          ELSE { StatError("ENOENT") },
               globbed \in Globbed(options) :
                Constructed(constructor(options, found, globbed), {},
                            [options |-> passed, found |-> found,
                             globbed |-> globbed])

SpecConfig == InitConfig /\ [][Next]_vars

\* the stat results of the extra files of the replayed runs: one file or
\* two files of different ages
TwinMatches ==
    { << s >> : s \in FileStats }
    \cup { l \in { << s, t >> : s \in FileStats, t \in FileStats } :
               l[1] # l[2] }

\* the runs that are replayed on a second snapshot: dest alone, dest with
\* ext, or map alone; ctime absent or true; with or without extra files
InitTwin ==
    \E shape \in { [dest |-> DestPath, ext |-> NoString, map |-> "none"],
                    [dest |-> DestPath, ext |-> ExtY,     map |-> "none"],
                    [dest |-> NoString, ext |-> NoString, map |-> "join"] },
       ctime \in { Null, Bool(TRUE) },
       found \in FileStats \cup { DirStats, StatError("ENOENT") },
       extra \in { Null, Str(ExtraPattern) } :
        LET options == ShapeOptions(shape, extra, ctime)
        IN  \E globbed \in IF extra = Null
                            THEN { << >> }
                            ELSE { << l >> : l \in TwinMatches } :
                Constructed(constructor(factory(options), found, globbed), {},
                            [options |-> options, found |-> found,
                             globbed |-> globbed])

\* the timestamp field the configuration does not select
Unselected ==
    IF Truthy(Field(factory(args.options), "ctime")) THEN "mtime" ELSE "ctime"

\* t moved by r within the timestamps, cyclically
Rotate(t, r) == ((t - 1 + r) % MaxTime) + 1

\* a stat result with its unselected timestamp moved by r; an error is
\* left as it is
Perturb(found, r) ==
    IF found.kind = "Stats"
    THEN [found EXCEPT ![Unselected] = Rotate(@, r)]
    ELSE found

PerturbAll(results, r) == [k \in DOMAIN results |-> Perturb(results[k], r)]

\* a run that ended, or stopped on an exception, is started again with a
\* new engine on a second snapshot (the same snapshot when r is 0): the
\* same files
\* and the same options, every unselected timestamp of the destination,
\* of the extra files and of the per-file destinations moved by r
Restart(r) ==
    /\ prior = Null
    /\ args # Null
    /\ status \in { "ended", "thrown" }
    /\ LET engine == constructor(factory(args.options), Perturb(args.found, r),
                                 [k \in DOMAIN args.globbed |->
                                     PerturbAll(args.globbed[k], r)])
       IN  /\ _dest' = engine._dest
           /\ _ext' = engine._ext
           /\ _map' = engine._map
           /\ _timestamp' = engine._timestamp
           /\ _destStats' = engine._destStats
           /\ _extraStats' = engine._extraStats
           /\ status' = IF engine.failure = Null THEN "open" ELSE "failed"
           /\ errors' = IF engine.failure = Null THEN << >> ELSE << engine.failure >>
    /\ _bufferedFiles' = Null
    /\ _all' = FALSE
    /\ received' = << >>
    /\ emitted' = << >>
    /\ signals' = << >>
    /\ delivered' = << >>
    /\ callbacks' = << >>
    /\ last' = NoCall
    /\ fs' = [path \in DOMAIN fs |-> Perturb(fs[path], r)]
    /\ prior' = [received |-> received, emitted |-> emitted,
                 status |-> status, errors |-> errors, moved |-> r]
    /\ UNCHANGED << consumer, args >>

\* the next file of the first run is written to the restarted engine, its
\* unselected timestamp moved as well
ReplayFile ==
    /\ prior # Null
    /\ Len(received) < Len(prior.received)
    /\ LET srcFile == prior.received[Len(received) + 1]
       IN  _transform([srcFile EXCEPT !.stat = Perturb(@, prior.moved)])

\* the end of the replayed stream
ReplayFlush ==
    /\ prior # Null
    /\ Len(received) = Len(prior.received)
    /\ prior.status = "ended"
    /\ _flush

NextTwin ==
    \/ /\ prior = Null
       /\ Len(received) < TwinFiles
       /\ \E srcFile \in Incoming : _transform(srcFile)
    \/ prior = Null /\ _flush
    \/ \E r \in 0 .. MaxTime - 1 : Restart(r)
    \/ ReplayFile
    \/ ReplayFlush

SpecTwin == InitTwin /\ [][NextTwin]_vars

\* stats of files whose two timestamps are independent of each other
AnyStats == { Stats(FALSE, m, c) : m \in Time, c \in Time }

\* the lists of up to three extra files, all stat'ed
ExtraLists ==
    { << s >> : s \in AnyStats }
    \cup { << s, t >> : s \in AnyStats, t \in AnyStats }
    \cup { << s, t, u >> : s \in AnyStats, t \in AnyStats, u \in AnyStats }

\* the runs of an engine with dest "d", an existing destination file and
\* one extra pattern that matches the files of a list of ExtraLists
InitExtra ==
    \E ctime \in { Null, Bool(TRUE) }, found \in FileStats, l \in ExtraLists :
        LET options == Options(Str(DestPath), Null, Null, Str(ExtraPattern), ctime)
        IN  Constructed(constructor(factory(options), found, << l >>), {},
                        [options |-> options, found |-> found,
                         globbed |-> << l >>])

SpecExtra == InitExtra /\ [][Next]_vars

\* the runs during which the file system changes: dest "d" alone, nothing
\* or a file at "d", with or without one extra file
InitTouch ==
    \E found \in FileStats \cup { StatError("ENOENT") },
       extra \in { Null, Str(ExtraPattern) } :
        LET options == Options(Str(DestPath), Null, Null, extra, Null)
        IN  \E globbed \in IF extra = Null
                            THEN { << >> }
                            ELSE { << << s >> >> : s \in FileStats } :
                Constructed(constructor(factory(options), found, globbed), {},
                            [options |-> options, found |-> found,
                             globbed |-> globbed])

\* the file at path is written, or removed, between two files of the
\* sequence: a later fs.statSync of path finds outcome
Touch(path, outcome) ==
    /\ status = "open"
    /\ path \in DOMAIN fs => fs[path] # outcome
    /\ fs' = (path :> outcome) @@ fs
    /\ UNCHANGED << _dest, _ext, _map, _timestamp, _destStats, _extraStats,
                    _bufferedFiles, _all, status, received, emitted, errors,
                    last, signals, delivered, callbacks, consumer, args, prior >>

NextTouch ==
    \/ Next
    \/ \E path \in { DestPath, ExtraPattern },
          outcome \in FileStats \cup { StatError("ENOENT") } :
            Touch(path, outcome)

SpecTouch == InitTouch /\ [][NextTouch]_vars

\* the runs with a map function that returns absolute paths: with dest,
\* with dest and ext, and without dest
InitAbsolute ==
    \E shape \in { [dest |-> DestPath, ext |-> NoString, map |-> "absolute"],
                    [dest |-> DestPath, ext |-> ExtY,     map |-> "absolute"],
                    [dest |-> NoString, ext |-> NoString, map |-> "absolute"] },
       found \in FileStats \cup { DirStats, StatError("ENOENT") } :
        LET options == ShapeOptions(shape, Null, Null)
        IN  Constructed(constructor(factory(options), found, << >>), {},
                        [options |-> options, found |-> found,
                         globbed |-> << >>])

SpecAbsolute == InitAbsolute /\ [][Next]_vars

\* ------------------------------------------------------------------------
\* Vocabulary of the properties
\* ------------------------------------------------------------------------

\* the arrival indices of the files pushed downstream
EmittedSet == { emitted[k] : k \in 1 .. Len(emitted) }

\* the files written so far, as arrival indices
Arrived == 1 .. Len(received)

\* the sequence 1, 2, ..., n
UpTo(n) == [k \in 1 .. n |-> k]

AllCarryStats == \A i \in Arrived : received[i].stat # Null

\* the probe of the i-th file: Null for Absent, a Stats record for Found,
\* an error record when the stat failed otherwise.  In shared-destination
\* mode it is the stat taken at construction.
Probe(i) ==
    IF perFileMode
    THEN LET found == fs[destFileJoined(received[i])]
         IN  IF found = StatError("ENOENT") THEN Null ELSE found
    ELSE _destStats

\* the i-th file has gone through the destination stat of its _transform call
Probed(i) ==
    /\ received[i].stat # Null
    /\ perFileMode => destFileJoined(received[i]) \in DOMAIN fs

Found(probe) == probe # Null /\ probe.kind = "Stats"

\* the freshness predicate of the specification
isStale(probe, extraWatermark, sourceStat) ==
    \/ probe = Null
    \/ sourceStat[_timestamp] > probe[_timestamp]
    \/ /\ extraWatermark # Null
       /\ probe # Null
       /\ extraWatermark[_timestamp] > probe[_timestamp]

\* ------------------------------------------------------------------------
\* Properties
\* ------------------------------------------------------------------------

\* C1: in shared-destination mode, when every file written carries stats,
\* the files emitted are none or all of the files written, never a
\* non-empty proper subset; in particular at the end of the stream.
C1_ZeroOrAll ==
    (status # "failed" /\ ~perFileMode /\ AllCarryStats)
        => (EmittedSet = {} \/ EmittedSet = Arrived)

\* C1 witness: a stream that ended after three files of which the first was
\* held back (not newer than the destination file) and all were emitted.
C1_Witness ==
    /\ ~perFileMode
    /\ status = "ended"
    /\ Len(received) = 3
    /\ AllCarryStats
    /\ _destStats # Null
    /\ received[1].stat[_timestamp] <= _destStats[_timestamp]
    /\ emitted = UpTo(3)

\* C7: the emitted files are a subsequence of the files written: arrival
\* indices within the files written, strictly increasing (so none twice and
\* none swapped), buffer flushes included.
C7_Subsequence ==
    /\ \A k \in 1 .. Len(emitted) : emitted[k] \in Arrived
    /\ \A k \in 1 .. Len(emitted) - 1 : emitted[k] < emitted[k + 1]

\* C7 witness: the third file is the first newer one and its _transform
\* call released the two buffered files before it.
C7_Witness ==
    /\ ~perFileMode
    /\ status = "open"
    /\ last.kind = "transform" /\ last.file = 3 /\ last.step = "done"
    /\ _extraStats = Null
    /\ _destStats # Null
    /\ received[1].stat[_timestamp] <= _destStats[_timestamp]
    /\ received[2].stat[_timestamp] <= _destStats[_timestamp]
    /\ emitted = UpTo(3)

\* the timestamp the comparisons read in a Stats record
Ts(stat) == stat[_timestamp]

\* the extra watermark exists and is strictly newer than the probe
ExtraNewer(probe) ==
    _extraStats # Null /\ Found(probe) /\ Ts(_extraStats) > Ts(probe)

\* the i-th file went through its destination stat and the stat did not
\* fail with an error other than "not found"
Decidable(i) == Probed(i) /\ Probe(i).kind # "Error"

\* the source names with their extension replaced by ".y", written out
ExpectedReplaced(relative) ==
    CASE relative = << "a", ".", "x" >> -> << "a", ".", "y" >>
      [] relative = << "b" >>           -> << "b", ".", "y" >>
      [] relative = << "c", ".", "x" >> -> << "c", ".", "y" >>

\* the last _transform call reached the destination stat
LastStatted ==
    last.kind = "transform" /\ last.step \in { "stat", "newer", "done" }

\* C2 (as claimed): in per-file mode a file is emitted if and only if
\* isStale holds for that file and its own destination probe.
C2_EmittedIffStale ==
    (status # "failed" /\ perFileMode)
        => \A i \in Arrived :
              Decidable(i)
                  => (i \in EmittedSet
                        <=> isStale(Probe(i), _extraStats, received[i].stat))

\* C3: in shared-destination mode with an existing destination file, if some
\* source file is strictly newer than the destination then every file
\* written is emitted, in arrival order; if none is newer and no extra
\* watermark is newer, nothing is emitted and no error is raised.
C3_SharedExistingDest ==
    (status # "failed" /\ ~perFileMode /\ _destStats # Null /\ AllCarryStats)
        => LET someNewer == \E i \in Arrived :
                                Ts(received[i].stat) > Ts(_destStats)
           IN  /\ someNewer => emitted = UpTo(Len(received))
               /\ (~someNewer /\ ~ExtraNewer(_destStats))
                     => /\ emitted = << >>
                        /\ errors = << >>
                        /\ status \in { "open", "ended" }

\* C3 witness: only the middle one of three files is newer than the
\* destination file, and all three were emitted by the end of the stream.
C3_Witness ==
    /\ ~perFileMode
    /\ status = "ended"
    /\ _destStats # Null
    /\ _extraStats = Null
    /\ Len(received) = 3
    /\ AllCarryStats
    /\ Ts(received[1].stat) <= Ts(_destStats)
    /\ Ts(received[2].stat) > Ts(_destStats)
    /\ Ts(received[3].stat) <= Ts(_destStats)
    /\ emitted = UpTo(3)

\* C4 (as claimed): when the destination of every file written does not
\* exist, every file written is emitted, in arrival order, whatever the
\* options.
C4_AbsentDestEmitsAll ==
    (status # "failed" /\ \A i \in Arrived : Probed(i) /\ Probe(i) = Null)
        => emitted = UpTo(Len(received))

\* C5: a file that was compared against a destination timestamp that the
\* extra watermark is strictly newer than is emitted, whatever its own
\* timestamp, in both modes.
C5_ExtraDominance ==
    status # "failed"
        => \A i \in Arrived :
              (Probed(i) /\ ExtraNewer(Probe(i))) => i \in EmittedSet

\* C5 witness: in per-file mode a file that is not newer than its
\* destination was emitted because the extra watermark is.
C5_Witness ==
    /\ perFileMode
    /\ Len(received) >= 1
    /\ Probed(1)
    /\ ExtraNewer(Probe(1))
    /\ Ts(received[1].stat) <= Ts(Probe(1))
    /\ 1 \in EmittedSet

\* C6 (as claimed): the decision of a _transform call that got a probe is
\* isStale(probe, extra watermark, source), also when the probe is Absent
\* and an extra watermark exists.
C6_DecisionIsStale ==
    (last.kind = "transform" /\ last.step \in { "newer", "done" })
        => /\ last.step = "done"
           /\ last.newer = isStale(last.dest, _extraStats,
                                   received[last.file].stat)

\* C8 (as claimed): with ext (and no map), the path compared against is the source path
\* with its extension replaced; a source whose timestamp equals its
\* destination's is suppressed, and only a source whose destination is
\* absent or strictly older is emitted.
C8_ExtStrictAsClaimed ==
    (status # "failed" /\ _ext # NoString /\ _map = "none")
        => /\ LastStatted
                 => last.path = _dest \o << "/" >>
                                  \o ExpectedReplaced(received[last.file].relative)
           /\ \A i \in Arrived :
                 Decidable(i)
                     => /\ (Found(Probe(i))
                              /\ Ts(received[i].stat) = Ts(Probe(i)))
                           => i \notin EmittedSet
                        /\ i \in EmittedSet
                           => \/ Probe(i) = Null
                              \/ Ts(received[i].stat) > Ts(Probe(i))

\* C8 (amended): as claimed, except that a source whose destination is
\* strictly older than the extra watermark is emitted whatever its own
\* timestamp.
C8_ExtStrict ==
    (status # "failed" /\ _ext # NoString /\ _map = "none")
        => /\ LastStatted
                 => last.path = _dest \o << "/" >>
                                  \o ExpectedReplaced(received[last.file].relative)
           /\ \A i \in Arrived :
                 Decidable(i)
                     => /\ (Found(Probe(i))
                              /\ Ts(received[i].stat) = Ts(Probe(i))
                              /\ ~ExtraNewer(Probe(i)))
                           => i \notin EmittedSet
                        /\ i \in EmittedSet
                           => \/ Probe(i) = Null
                              \/ Ts(received[i].stat) > Ts(Probe(i))
                              \/ ExtraNewer(Probe(i))

\* C8 witness: ext ".y", two sources; the first has a destination of the
\* same age and is suppressed, the second a strictly older one and is
\* emitted.
C8_Witness ==
    /\ _ext # NoString /\ _map = "none"
    /\ _extraStats = Null
    /\ Len(received) = 2
    /\ Decidable(1) /\ Decidable(2)
    /\ Found(Probe(1)) /\ Ts(received[1].stat) = Ts(Probe(1))
    /\ Found(Probe(2)) /\ Ts(received[2].stat) > Ts(Probe(2))
    /\ fs[<< "d", "/", "b", ".", "y" >>] = Probe(2)
    /\ emitted = << 2 >>

\* the antecedent of C9: dest is a directory, no extra dependency, every
\* file written carries stats, and file i is the only one with a
\* counterpart in the directory
C9_OnlyCounterpart(i) ==
    /\ status # "failed"
    /\ _destStats # Null /\ _destStats.isDir
    /\ _extraStats = Null
    /\ \A j \in Arrived : Decidable(j)
    /\ Found(Probe(i))
    /\ \A j \in Arrived \ { i } : Probe(j) = Null

\* C9 (as claimed): the source whose counterpart is equal to or older than
\* it is suppressed and every other source is emitted.
C9_AsClaimed ==
    \A i \in Arrived :
        (C9_OnlyCounterpart(i) /\ Ts(Probe(i)) <= Ts(received[i].stat))
            => /\ i \notin EmittedSet
               /\ \A j \in Arrived \ { i } : j \in EmittedSet

\* C9 (amended): the source whose counterpart is equal to or newer than it
\* is suppressed and every other source is emitted.
C9_OneCounterpart ==
    \A i \in Arrived :
        (C9_OnlyCounterpart(i) /\ Ts(Probe(i)) >= Ts(received[i].stat))
            => /\ i \notin EmittedSet
               /\ \A j \in Arrived \ { i } : j \in EmittedSet

\* C9 witness: three sources, the directory holds a counterpart of the
\* second only, of the same age or newer; the first and third were emitted.
C9_Witness ==
    /\ Len(received) = 3
    /\ C9_OnlyCounterpart(2)
    /\ Ts(Probe(2)) >= Ts(received[2].stat)
    /\ emitted = << 1, 3 >>

\* C10: with map, the path compared against is map(p), p being the source's
\* relative path after the optional extension replacement, used as is
\* without dest and joined behind dest otherwise; the probe is what is at
\* that path.
C10_MapPath ==
    (status # "failed" /\ _map # "none" /\ LastStatted)
        => LET relative == received[last.file].relative
               p        == IF _ext # NoString
                           THEN ExpectedReplaced(relative)
                           ELSE relative
               mapped   == ApplyMap(_map, p)
           IN  /\ last.path = IF _dest = NoString
                              THEN mapped
                              ELSE _dest \o << "/" >> \o mapped
               /\ last.path \in DOMAIN fs
               /\ last.step # "stat"
                     => last.dest = IF fs[last.path] = StatError("ENOENT")
                                    THEN Null
                                    ELSE fs[last.path]

\* C10 witness: dest "d", ext ".y" and a map that appends ".m": the first
\* source "a.x" was compared against "d/a.y.m".
C10_Witness ==
    /\ _dest = DestPath /\ _ext = ExtY /\ _map = "suffix"
    /\ last.kind = "transform" /\ last.file = 1 /\ last.step = "done"
    /\ last.path = << "d", "/", "a", ".", "y", ".", "m" >>
    /\ Found(last.dest)

\* no destination stat of a file written so far failed with an error other
\* than "not found"
NoStatFailure == \A i \in Arrived : Probed(i) => Probe(i).kind # "Error"

\* C12 (as claimed): while every file written carries stats and no
\* destination stat has failed, no error is raised and the stream can
\* still be flushed or has been; once flushed, the buffer reference is
\* released and the files that were held are not emitted.
C12_FlushesCleanly ==
    (status # "failed" /\ AllCarryStats /\ NoStatFailure)
        => /\ status \in { "open", "ended" }
           /\ errors = << >>
           /\ status = "ended"
                 => /\ _bufferedFiles = Null
                    /\ (~perFileMode /\ ~_all) => emitted = << >>

\* the file written by the step, when the step is a _transform call
Written == received'[Len(received')]

\* the step is a _transform call for no file or for a file without stats
MissingStatsStep ==
    /\ Len(received') = Len(received) + 1
    /\ (Written = NoFile \/ Written.stat = Null)

\* C13: a _transform call for an absent file or a file without stats
\* reports one error through the callback, neither emits nor buffers the
\* file, leaves the buffered files where they are, and ends the sequence:
\* no step follows it.
C13_MissingStatsAborts ==
    [][ /\ status # "errored"
        /\ MissingStatsStep
              => /\ status' = "errored"
                 /\ errors' = << PluginError("Expected a source file with stats") >>
                 /\ signals' = Append(signals, [error |-> errors'[1],
                                                after |-> Len(emitted)])
                 /\ emitted' = emitted
                 /\ _bufferedFiles' = _bufferedFiles
                 /\ _all' = _all ]_vars

\* C13 witness: two files are held in the buffer when no file at all is
\* written; the sequence is aborted with the two still held and nothing
\* emitted.
C13_Witness ==
    /\ status = "errored"
    /\ Len(received) = 3
    /\ received[3] = NoFile
    /\ _bufferedFiles = Array(<< 1, 2 >>)
    /\ emitted = << >>
    /\ Len(errors) = 1
    /\ Len(signals) = 1

\* the elements of a sequence
Range(seq) == { seq[k] : k \in 1 .. Len(seq) }

\* the errors of the 'error' events the consumer received
Signalled == { signals[k].error : k \in 1 .. Len(signals) }

\* C14 (as claimed): in per-file mode, after a _transform call whose
\* destination stat failed with "not found" the probe is Absent and the
\* file is emitted; after one whose stat failed with another error the
\* file is neither emitted nor buffered, the consumer has received the
\* error, and the sequence has stopped.
C14_StatFailures ==
    (status # "failed" /\ perFileMode /\ LastStatted)
        => LET found == fs[last.path]
           IN  /\ found = StatError("ENOENT")
                     => /\ last.step = "done"
                        /\ last.dest = Null
                        /\ last.file \in EmittedSet
               /\ (found.kind = "Error" /\ found # StatError("ENOENT"))
                     => /\ last.file \notin EmittedSet
                        /\ _bufferedFiles = Null
                        /\ found \in Signalled
                        /\ status \notin { "open", "ended" }

\* the fatal conditions: a file without stats, a destination stat that
\* failed with an error other than "not found", a "data" handler that threw
FatalCondition ==
    \/ status = "errored"
    \/ status = "thrown" /\ last.step = "stat"
    \/ \E k \in 1 .. Len(emitted) : emitted[k] \in consumer

\* C15 (as claimed): once a fatal condition has occurred the consumer has
\* received exactly one error signal and no file was emitted after it;
\* before, it has received none.
C15_OneSignalThenSilence ==
    status # "failed"
        => IF FatalCondition
           THEN /\ Len(signals) = 1
                /\ signals[1].after = Len(emitted)
           ELSE signals = << >>

\* C16: for every file whose "data" handler threw, the consumer received an
\* 'error' event carrying what the handler threw, right after that file;
\* the exception did not leave the _transform call, which ran to its end.
C16_ConsumerThrowCaught ==
    /\ \A k \in 1 .. Len(emitted) :
          emitted[k] \in consumer
              => [error |-> ConsumerError(emitted[k]), after |-> k] \in Range(signals)
    /\ \A k \in 1 .. Len(errors) : errors[k].kind # "ConsumerError"
    /\ (last.kind = "transform" /\ last.file \in EmittedSet)
          => last.step = "done" /\ status \in { "open", "ended" }

\* C16 witness: the third file released the two files held in the buffer;
\* the handler threw on the second, the consumer received that error and
\* the third file after it.
C16_Witness ==
    /\ consumer = { 2 }
    /\ ~perFileMode
    /\ status = "open"
    /\ last.kind = "transform" /\ last.file = 3 /\ last.step = "done"
    /\ emitted = UpTo(3)
    /\ signals = << [error |-> ConsumerError(2), after |-> 2] >>

\* an option is present when a value was passed for it
Present(v) == v # Null

ListOfStrings(v) ==
    v.kind = "Array" /\ \A k \in 1 .. Len(v.items) : v.items[k].kind = "string"

\* the options the engine was built from, after the factory
Passed == factory(args.options)

\* the cases in which construction is to fail with a configuration error
InvalidConfiguration ==
    LET dest  == Field(Passed, "dest")
        ext   == Field(Passed, "ext")
        map   == Field(Passed, "map")
        extra == Field(Passed, "extra")
    IN  \/ args.options = Null
        \/ Present(dest) /\ dest.kind # "string"
        \/ Present(ext) /\ ext.kind # "string"
        \/ Present(map) /\ map.kind # "function"
        \/ ~Present(dest) /\ ~Present(map)
        \/ Present(extra) /\ extra.kind # "string" /\ ~ListOfStrings(extra)

\* C17 (as claimed): in each of the invalid cases construction fails with
\* a configuration error and yields no engine.
C17_InvalidConfigurationFails ==
    (args # Null /\ InvalidConfiguration)
        => /\ status = "failed"
           /\ errors[1].kind = "PluginError"

\* the options other than dest and map are valid, and dest and map are each
\* absent or of their declared type (a string that is given is not empty)
OthersValid ==
    LET ext   == Field(Passed, "ext")
        extra == Field(Passed, "extra")
        dest  == Field(Passed, "dest")
        map   == Field(Passed, "map")
    IN  /\ args.options # Null
        /\ Passed.kind = "options"
        /\ ~Present(ext) \/ (ext.kind = "string" /\ ext.chars # << >>)
        /\ ~Present(extra) \/ extra.kind = "string" \/ ListOfStrings(extra)
        /\ ~Present(dest) \/ (dest.kind = "string" /\ dest.chars # << >>)
        /\ ~Present(map) \/ map.kind = "function"

\* no file system call of the constructor failed: the stat of dest found a
\* file, a directory or nothing, and every matched extra file was stat'ed
ConstructionStatsOk ==
    /\ args.found.kind = "Error" => args.found.code = "ENOENT"
    /\ \A k \in DOMAIN args.globbed :
          \A j \in 1 .. Len(args.globbed[k]) : args.globbed[k][j].kind # "Error"

\* C18: with the other options valid and no file system failure during
\* construction, construction succeeds when dest alone, map alone or both
\* are given, and fails, with a configuration error, only when neither is.
C18_DestOrMap ==
    (args # Null /\ OthersValid /\ ConstructionStatsOk)
        => LET dest == Field(Passed, "dest")
               map  == Field(Passed, "map")
           IN  IF Present(dest) \/ Present(map)
               THEN /\ status # "failed"
                    /\ _dest = IF Present(dest) THEN dest.chars ELSE NoString
                    /\ _map = IF Present(map) THEN map.name ELSE "none"
               ELSE /\ status = "failed"
                    /\ errors = << PluginError("Requires either options.dest or options.map or both") >>

\* C18 witness: an engine built from a map alone has processed a file.
C18_Witness ==
    /\ args # Null
    /\ OthersValid
    /\ ConstructionStatsOk
    /\ ~Present(Field(Passed, "dest"))
    /\ Present(Field(Passed, "map"))
    /\ status = "open"
    /\ _map = "rename"
    /\ last.kind = "transform" /\ last.step = "done"

\* options.extra is a string or a non-empty list of patterns
NonEmptyExtra ==
    LET extra == normalizedExtra(Field(Passed, "extra"))
    IN  extra.kind = "Array" /\ extra.items # << >>

\* the stat results of all the files the extra patterns matched, in order
RECURSIVE Flatten(_)
Flatten(lists) ==
    IF lists = << >> THEN << >> ELSE Head(lists) \o Flatten(Tail(lists))

Matched == Flatten(args.globbed)

\* construction does not fail before the extra files are looked at: the
\* options are valid, dest or map is given, and the stat of dest does not
\* fail
ReachesExtra ==
    /\ OthersValid
    /\ Present(Field(Passed, "dest")) \/ Present(Field(Passed, "map"))
    /\ args.found.kind = "Error" => args.found.code = "ENOENT"

\* C19 (as claimed): with a non-empty list of extra patterns, construction
\* fails or leaves an extra watermark.
C19_NeverEmptyWatermark ==
    (args # Null /\ NonEmptyExtra)
        => (status = "failed" \/ _extraStats # Null)

\* C19 (amended): with a non-empty list of extra patterns, construction
\* fails when a matched file cannot be stat'ed, leaves the latest of the
\* matched files as the watermark when at least one file is matched and all
\* are stat'ed, and succeeds with an empty watermark when no file is
\* matched.
C19_WatermarkOrError ==
    (args # Null /\ NonEmptyExtra /\ ReachesExtra)
        => IF \E k \in 1 .. Len(Matched) : Matched[k].kind = "Error"
           THEN /\ status = "failed"
                /\ errors[1].kind = "PluginError"
           ELSE IF Matched # << >>
           THEN /\ status # "failed"
                /\ _extraStats \in Range(Matched)
                /\ \A k \in 1 .. Len(Matched) :
                      Matched[k][_timestamp] <= _extraStats[_timestamp]
           ELSE /\ status # "failed"
                /\ _extraStats = Null

\* C19 witness: of two patterns the first matches nothing and the second
\* one file, whose stats are the watermark of the engine built.
C19_Witness ==
    /\ args # Null
    /\ NonEmptyExtra
    /\ ReachesExtra
    /\ Len(args.globbed) = 2
    /\ args.globbed[1] = << >>
    /\ Len(args.globbed[2]) = 1
    /\ status = "open"
    /\ _extraStats = args.globbed[2][1]

\* C20: when extra patterns are configured and match no file, construction
\* does not fail on their account, and every later decision is that of an
\* engine without extra option: stale exactly when the destination is
\* absent or strictly older than the source.
C20_NoMatchIsNoExtra ==
    (args # Null /\ NonEmptyExtra /\ ReachesExtra /\ Matched = << >>)
        => /\ status # "failed"
           /\ (last.kind = "transform" /\ last.step \in { "newer", "done" })
                 => /\ last.step = "done"
                    /\ last.newer = isStale(last.dest, Null,
                                            received[last.file].stat)

\* C20 witness: the extra pattern matched nothing, and a source that is not
\* newer than its existing destination was decided not stale.
C20_Witness ==
    /\ args # Null
    /\ NonEmptyExtra
    /\ ReachesExtra
    /\ Matched = << >>
    /\ last.kind = "transform" /\ last.step = "done"
    /\ Found(last.dest)
    /\ Ts(received[last.file].stat) <= Ts(last.dest)
    /\ ~last.newer
    /\ last.file \notin EmittedSet

\* C11: the engine compares on ctime when the ctime option is true and on
\* mtime otherwise, and the files emitted do not depend on the other
\* timestamp: a run replayed on a snapshot that differs only in the
\* unselected timestamps (of the sources, the destinations and the extra
\* files) stops at the same file, in the same way, having emitted the same
\* files in the same order.
C11_SelectedFieldOnly ==
    /\ (args # Null /\ status # "failed")
          => _timestamp = IF Unselected = "mtime" THEN "ctime" ELSE "mtime"
    /\ (prior # Null /\ status # "open")
          => /\ status = prior.status
             /\ Len(received) = Len(prior.received)
             /\ emitted = prior.emitted

\* C11 witness: with ctime true and two extra files of different ages, a
\* run that emitted one of two files and held back the other was replayed
\* to its end with the mtimes moved, and emitted the same.
C11_Witness ==
    /\ prior # Null
    /\ status = "ended"
    /\ _timestamp = "ctime"
    /\ Len(args.globbed) = 1 /\ Len(args.globbed[1]) = 2
    /\ Len(received) = 2
    /\ Len(emitted) = 1
    /\ emitted = prior.emitted
    /\ received # prior.received

\* the first of the matched extra files whose stat failed
FirstFailed ==
    Matched[Min({ k \in 1 .. Len(Matched) : Matched[k].kind = "Error" })]

\* C21: when a file matched by an extra pattern cannot be stat'ed,
\* construction fails with an error that names the path of the first such
\* file when the failure carries one, and with the unknown-error variant
\* otherwise; there is no engine, and no source file is processed.
C21_ExtraStatFailure ==
    (args # Null /\ NonEmptyExtra /\ ReachesExtra
       /\ \E k \in 1 .. Len(Matched) : Matched[k].kind = "Error")
        => /\ status = "failed"
           /\ errors = << IF FirstFailed.path # NoString
                          THEN [kind |-> "PluginError",
                                message |-> "Failed to read stats for an extra file: ",
                                path |-> FirstFailed.path]
                          ELSE PluginError("Failed to stat extra files; unknown error: ") >>
           /\ received = << >>
           /\ emitted = << >>
           /\ ~ENABLED Next

\* C21 witness: the first pattern matched a file that was stat'ed, the
\* second a file whose stat failed; construction failed naming the second
\* file.
C21_Witness ==
    /\ args # Null
    /\ NonEmptyExtra
    /\ ReachesExtra
    /\ Len(Matched) = 2
    /\ Matched[1].kind = "Stats"
    /\ Matched[2] = [kind |-> "Error", path |-> OtherExtra]
    /\ status = "failed"
    /\ errors[1].path = OtherExtra

\* the timestamp field the configuration selects
Selected == IF Unselected = "mtime" THEN "ctime" ELSE "mtime"

\* the position of the first of the matched files whose selected timestamp
\* is the greatest
FirstLatest ==
    Min({ k \in 1 .. Len(Matched) :
            \A j \in 1 .. Len(Matched) :
                Matched[j][Selected] <= Matched[k][Selected] })

\* C22: the extra watermark is the stat record of a matched file, no
\* matched file has a strictly greater selected timestamp, and among the
\* files that share the greatest the first in match order is the one kept.
C22_WatermarkIsFirstLatest ==
    (args # Null /\ status # "failed" /\ NonEmptyExtra /\ Matched # << >>)
        => /\ \A j \in 1 .. Len(Matched) :
                 Matched[j][Selected] <= _extraStats[Selected]
           /\ _extraStats = Matched[FirstLatest]

\* C22 witness: of three extra files the first and the third share the
\* greatest selected timestamp and differ in the other one; the watermark
\* is the first.
C22_Witness ==
    /\ args # Null
    /\ status = "open"
    /\ Len(Matched) = 3
    /\ Matched[1][Selected] = Matched[3][Selected]
    /\ Matched[2][Selected] < Matched[1][Selected]
    /\ Matched[1] # Matched[3]
    /\ _extraStats = Matched[1]
    /\ received # << >>

\* C23: the consumer receives, for each file emitted, that source file as
\* it was written to the stream, path and stats unchanged; none of the
\* files received carries the path of the extra file, which is not among
\* the sources written.
C23_SourcesForwardedUnmodified ==
    /\ Len(delivered) = Len(emitted)
    /\ \A k \in 1 .. Len(delivered) :
          /\ delivered[k] = received[emitted[k]]
          /\ delivered[k].relative # ExtraPattern

\* C23 witness: in shared-destination mode two sources that are not newer
\* than the destination were emitted because the extra file is; the
\* consumer received the two sources as written, and nothing else.
C23_Witness ==
    /\ ~perFileMode
    /\ Len(received) = 2
    /\ AllCarryStats
    /\ ExtraNewer(_destStats)
    /\ Ts(received[1].stat) <= Ts(_destStats)
    /\ Ts(received[2].stat) <= Ts(_destStats)
    /\ delivered = received

C25_LatchAbsorbing ==
    [][ _all
          => /\ _all'
             /\ (Len(received') = Len(received) + 1 /\ ~MissingStatsStep)
                   => /\ emitted' = Append(emitted, Len(received'))
                      /\ _bufferedFiles' = _bufferedFiles
                      /\ status' = "open" ]_vars

\* C25 witness: the second file set the latch; the third, not newer than
\* the destination, was emitted by its own call and the buffer is empty.
C25_Witness ==
    /\ _all
    /\ status = "open"
    /\ last.kind = "transform" /\ last.file = 3 /\ last.step = "done"
    /\ ~last.newer
    /\ Ts(received[1].stat) <= Ts(_destStats)
    /\ Ts(received[2].stat) > Ts(_destStats)
    /\ _bufferedFiles = Array(<< >>)
    /\ emitted = UpTo(3)

\* what the stat of dest found at construction: Null when nothing was there
DestAtConstruction ==
    IF args.found = StatError("ENOENT") THEN Null ELSE args.found

\* the extra watermark as of construction
ExtraAtConstruction ==
    IF Matched = << >> THEN Null ELSE Matched[FirstLatest]

\* C26: in shared-destination mode the destination stat and the extra
\* watermark are, in every state, the ones read at construction, whatever
\* has happened to the files since; every decision compares against them
\* and not against the file system as it is at the time of the decision.
C26_ReadOnceAtConstruction ==
    (args # Null /\ status # "failed" /\ ~perFileMode)
        => /\ _destStats = DestAtConstruction
           /\ _extraStats = ExtraAtConstruction
           /\ (last.kind = "transform" /\ last.step \in { "newer", "done" })
                 => last.dest = DestAtConstruction
           /\ (last.kind = "transform" /\ last.step = "done")
                 => last.newer = LET ts == Selected
                                     src == received[last.file].stat
                                 IN  \/ DestAtConstruction = Null
                                     \/ src[ts] > DestAtConstruction[ts]
                                     \/ /\ ExtraAtConstruction # Null
                                        /\ ExtraAtConstruction[ts] > DestAtConstruction[ts]

\* C26 witness: after construction the destination was rewritten and is now
\* as new as the source, and the extra file was rewritten too; the source
\* was still decided newer, against the stat taken at construction.
C26_Witness ==
    /\ args # Null
    /\ ~perFileMode
    /\ status = "open"
    /\ last.kind = "transform" /\ last.step = "done"
    /\ last.newer
    /\ DestAtConstruction # Null
    /\ fs[DestPath] # args.found
    /\ fs[DestPath].kind = "Stats"
    /\ ExtraPattern \in DOMAIN fs
    /\ received[last.file].stat[Selected] <= fs[DestPath][Selected]
    /\ _destStats = args.found

\* C27 (as claimed): with dest set and a map function that returns an
\* absolute path, the path that is stat'ed is the map result alone.
C27_AbsoluteMapWins ==
    (status # "failed" /\ _map = "absolute" /\ _dest # NoString /\ LastStatted)
        => LET relative == received[last.file].relative
               p        == IF _ext # NoString
                           THEN ExpectedReplaced(relative)
                           ELSE relative
           IN  last.path = << "/", "o", "/" >> \o p

\* C28 (as claimed): once the stream has stopped on an error in the middle
\* of a sequence, the buffer reference is cleared, as after a flush.
C28_TeardownReleasesBuffer ==
    status \in { "errored", "thrown" } => _bufferedFiles = Null

\* ------------------------------------------------------------------------
\* The promise-based implementation (kew promises, fs.stat and glob with
\* callbacks).  A promise is modelled by what it settles to: Return(v) when
\* fulfilled with v, Throw(e) when rejected with e.
\* ------------------------------------------------------------------------

\* Q.nfcall(fs.stat, path): fulfilled with the Stats found, rejected with
\* the error of fs.stat otherwise
nfcallStat(found) ==
    IF found.kind = "Error" THEN Throw(found) ELSE Return(found)

\* the _extraStats promise of the promise-based constructor: results is
\* what fs.stat finds for the matched files.  A failing stat rejects Q.all
\* and the .fail handler rethrows it as a PluginError; with no file matched
\* resolvedStats[0] is undefined.
promiseExtraStats(results, timestamp) ==
    LET failing == { i \in 1 .. Len(results) : results[i].kind = "Error" }
    IN  IF failing # {}
        THEN LET error == results[Min(failing)]
             IN  IF error.path # NoString
                 THEN Throw([kind |-> "PluginError",
                             message |-> "Failed to read stats for an extra file: ",
                             path |-> error.path])
                 ELSE Throw(PluginError("Failed to stat extra files; unknown error: "))
        ELSE IF results = << >>
             THEN Return(Null)
             ELSE Return(LatestStat(results, 2, results[1], timestamp))

\* the promise-based constructor called with options (extra patterns are
\* strings): the option checks throw as in _checkOptions, the stats of
\* the destination and of the extra files are promises kept in the
\* engine, so that a failing stat does not fail the construction
promiseConstructor(options, found, globbed) ==
    LET checked == _checkOptions(options)
        dest    == Field(options, "dest")
        ext     == Field(options, "ext")
        map     == Field(options, "map")
        extra   == normalizedExtra(Field(options, "extra"))
        ts      == IF Truthy(Field(options, "ctime")) THEN "ctime" ELSE "mtime"
        files   == allFiles(extra.items, globbed, 1)
    IN  [failure |-> checked,
         _dest |-> IF checked = Null /\ Truthy(dest) THEN dest.chars ELSE NoString,
         _ext |-> IF checked = Null /\ Truthy(ext) THEN ext.chars ELSE NoString,
         _map |-> IF checked = Null /\ Truthy(map) THEN map.name ELSE "none",
         _timestamp |-> ts,
         _destStats |-> IF checked = Null /\ Truthy(dest)
                        THEN nfcallStat(found)
                        ELSE Return(Null),
         _extraStats |-> IF checked = Null /\ Truthy(extra)
                         THEN IF files.threw
                              THEN files
                              ELSE promiseExtraStats(files.value, ts)
                         ELSE Return(Null),
         _bufferedFiles |-> Null,
         _all |-> FALSE,
         status |-> IF checked = Null THEN "open" ELSE "failed",
         emitted |-> << >>,
         errors |-> IF checked = Null THEN << >> ELSE << checked >>]

\* the path the promise-based _transform stats for srcFile
promiseDestFileJoined(self, srcFile) ==
    LET relative == srcFile.relative
        ext      == extname(relative)
        replaced == IF self._ext # NoString
                    THEN SubSeq(relative, 1, Len(relative) - Len(ext)) \o self._ext
                    ELSE relative
        destFileRelative == IF self._map # "none"
                            THEN ApplyMap(self._map, replaced)
                            ELSE replaced
    IN  IF self._dest # NoString
        THEN join(self._dest, destFileRelative)
        ELSE destFileRelative

\* the first .spread of the promise-based _transform: rejected when the
\* destination's or the extra files' promise is; otherwise the pair of the
\* stats to compare with, after the stat of the file's own destination
\* (found) or the allocation of the buffer
promiseStats(self, found) ==
    IF self._destStats.threw
    THEN [pair |-> self._destStats, buffer |-> self._bufferedFiles]
    ELSE IF self._extraStats.threw
    THEN [pair |-> self._extraStats, buffer |-> self._bufferedFiles]
    ELSE LET destStats == self._destStats.value
         IN  IF (destStats # Null /\ destStats.isDir)
                \/ self._ext # NoString \/ self._map # "none"
             THEN [pair |-> IF found.kind = "Error"
                            THEN Throw(found)
                            ELSE Return(<< found, self._extraStats.value >>),
                   buffer |-> self._bufferedFiles]
             ELSE [pair |-> Return(<< destStats, self._extraStats.value >>),
                   buffer |-> IF self._bufferedFiles = Null
                              THEN Array(<< >>)
                              ELSE self._bufferedFiles]

\* the .fail handler after it: ENOENT becomes a missing destination, paired
\* with this._extraStats.  The handler is a plain function, not the
\* engine's method: bound reads this._extraStats as undefined on the object
\* the promise library calls it on, unbound this is undefined and the read
\* throws a TypeError.
promiseMissing(pair, bound) ==
    IF ~pair.threw
    THEN pair
    ELSE IF "code" \in DOMAIN pair.error /\ pair.error.code = "ENOENT"
    THEN IF bound
         THEN Return(<< Null, Null >>)
         ELSE Throw([kind |-> "TypeError"])
    ELSE pair

\* the comparison of the second .spread
promiseNewer(self, srcFile, destFileStats, extraFileStats) ==
    LET ts == self._timestamp
    IN  IF extraFileStats # Null /\ destFileStats = Null
        THEN Throw([kind |-> "TypeError"])
        ELSE Return((destFileStats = Null
                        \/ srcFile.stat[ts] > destFileStats[ts])
                    \/ (extraFileStats # Null
                        /\ extraFileStats[ts] > destFileStats[ts]))

\* the promise-based _transform for srcFile, file i of the stream, on the
\* engine self: found is what fs.stat finds at the file's destination.
\* Every rejection ends in .fail(done).
promiseTransform(self, srcFile, i, found, bound) ==
    IF srcFile = NoFile \/ srcFile.stat = Null
    THEN [self EXCEPT !.status = "errored",
                      !.errors = Append(@, PluginError("Expected a source file with stats"))]
    ELSE LET first   == promiseStats(self, found)
             settled == promiseMissing(first.pair, bound)
             newer   == IF settled.threw
                        THEN settled
                        ELSE promiseNewer(self, srcFile,
                                          settled.value[1], settled.value[2])
             held    == [self EXCEPT !._bufferedFiles = first.buffer]
         IN  IF newer.threw
             THEN [held EXCEPT !.status = "errored",
                               !.errors = Append(@, newer.error)]
             ELSE IF self._all
             THEN [held EXCEPT !.emitted = Append(@, i)]
             ELSE IF ~newer.value
             THEN IF first.buffer # Null
                  THEN [held EXCEPT !._bufferedFiles = Array(Append(first.buffer.items, i))]
                  ELSE held
             ELSE IF first.buffer # Null
             THEN [held EXCEPT !.emitted = @ \o first.buffer.items \o << i >>,
                               !._bufferedFiles = Array(<< >>),
                               !._all = TRUE]
             ELSE [held EXCEPT !.emitted = Append(@, i)]

\* the promise-based _flush
promiseFlush(self) ==
    [self EXCEPT !._bufferedFiles = Null, !.status = "ended"]

\* what fs.stat finds at path in the snapshot files
promiseFound(files, path) ==
    IF path \in DOMAIN files THEN files[path] ELSE StatError("ENOENT")

\* the promise-based engine after the first n of the files written, on the
\* snapshot files; nothing is processed once the stream has failed
RECURSIVE promiseRun(_, _, _, _, _)
promiseRun(self, written, files, n, bound) ==
    IF n = 0
    THEN self
    ELSE LET before  == promiseRun(self, written, files, n - 1, bound)
             srcFile == written[n]
         IN  IF before.status # "open"
             THEN before
             ELSE promiseTransform(before, srcFile, n,
                                   IF srcFile = NoFile
                                   THEN StatError("ENOENT")
                                   ELSE promiseFound(files,
                                            promiseDestFileJoined(before, srcFile)),
                                   bound)

\* the runs both implementations are given: dest alone, dest with ext, or
\* map alone; the destination a file, a directory, missing or unreadable;
\* no extra files, an extra pattern that matches no file or one file, or
\* one file that cannot be stat'ed
InitPromise ==
    \E shape \in { [dest |-> DestPath, ext |-> NoString, map |-> "none"],
                    [dest |-> DestPath, ext |-> ExtY,     map |-> "none"],
                    [dest |-> NoString, ext |-> NoString, map |-> "join"] },
       found \in FileStats \cup { DirStats, StatError("ENOENT"), StatError("EACCES") },
       extra \in { Null, Str(ExtraPattern) } :
        LET options == ShapeOptions(shape, extra, Null)
        IN  \E globbed \in IF extra = Null
                            THEN { << >> }
                            ELSE { << l >> : l \in { << s >> : s \in FileStats }
                                       \cup { << >>,
                                              << [kind |-> "Error",
                                                  path |-> ExtraPattern] >> } } :
                Constructed(constructor(factory(options), found, globbed), {},
                            [options |-> options, found |-> found,
                             globbed |-> globbed])

\* the promise-based implementation is given what the synchronous one was
\* given, once that one has stopped: the same options, the same snapshot
\* and the files written so far, and the end of the stream if it was
\* reached.  What it emits and reports is kept in prior.
Promised(bound) ==
    /\ prior = Null
    /\ args # Null
    /\ status # "open"
    /\ LET engine == promiseConstructor(factory(args.options), args.found,
                                        args.globbed)
           ran    == IF engine.failure # Null
                     THEN engine
                     ELSE promiseRun(engine, received, fs, Len(received), bound)
           result == IF ran.status = "open" /\ status = "ended"
                     THEN promiseFlush(ran)
                     ELSE ran
       IN  prior' = [emitted |-> result.emitted, errors |-> result.errors,
                     status |-> result.status, bound |-> bound]
    /\ UNCHANGED << _dest, _ext, _map, _timestamp, _destStats, _extraStats,
                    _bufferedFiles, _all, status, received, emitted, errors,
                    fs, last, signals, delivered, callbacks, consumer, args >>

NextPromise ==
    \/ /\ Len(received) < TwinFiles
       /\ \E srcFile \in Incoming : _transform(srcFile)
    \/ _flush
    \/ \E bound \in BOOLEAN : Promised(bound)

SpecPromise == InitPromise /\ [][NextPromise]_vars

\* C29: the promise-based and the synchronous implementation emit the same
\* files in the same order and report the same errors at the same point,
\* at construction or at the same file
C29_SameFilesAndErrors ==
    prior # Null =>
        /\ prior.emitted = emitted
        /\ prior.errors = errors
        /\ (prior.status = "failed") = (status = "failed")

\* the files the buffer holds, by arrival index: none when it is not
\* allocated
Held == IF _bufferedFiles = Null THEN << >> ELSE _bufferedFiles.items

\* the files received so far, by arrival index, in arrival order
ReceivedSoFar == [k \in 1 .. Len(received) |-> k]

\* a run in which no error has been raised, at construction or at a file
ErrorFree == status # "failed" /\ errors = << >> /\ signals = << >>

\* C30 as stated: in every state of an error-free run, in shared-
\* destination mode the buffer holds exactly the files received while the
\* latch is false and nothing is emitted, and is empty with every file
\* emitted while the latch is true; in per-file mode the buffer is never
\* allocated and the latch never set
C30_BufferInvariant ==
    ErrorFree =>
        IF perFileMode
        THEN _bufferedFiles = Null /\ ~_all
        ELSE IF _all
        THEN Held = << >> /\ emitted = ReceivedSoFar
        ELSE emitted = << >> /\ Held = ReceivedSoFar

\* C30, amended: the same, except that once the stream has ended with the
\* latch still false the buffer has been released and holds no file
C30_BufferInvariantUntilFlush ==
    ErrorFree =>
        IF perFileMode
        THEN _bufferedFiles = Null /\ ~_all
        ELSE IF _all
        THEN Held = << >> /\ emitted = ReceivedSoFar
        ELSE /\ emitted = << >>
             /\ IF status = "ended"
                THEN _bufferedFiles = Null
                ELSE Held = ReceivedSoFar

\* shared-destination mode: a file that was not newer was held, and a later
\* newer file set the latch and drained the buffer
C30_Witness ==
    /\ ErrorFree
    /\ status = "open"
    /\ ~perFileMode
    /\ _destStats # Null
    /\ _extraStats = Null
    /\ Len(received) >= 2
    /\ received[1].stat[_timestamp] <= _destStats[_timestamp]
    /\ _all
    /\ _bufferedFiles = Array(<< >>)
    /\ emitted = ReceivedSoFar

\* C31: every _transform call has called its callback exactly once when it
\* returns, and so before the next file is taken, on every path: missing
\* stats, destination found, destination absent, destination stat failing
C31_CallbackOncePerFile ==
    /\ Len(callbacks) = Len(received)
    /\ \A k \in 1 .. Len(callbacks) : callbacks[k].file = k

\* the 'error' events the pushes of the files pushed raise, in order, when
\* they follow the files in sent: one for each file whose "data" handler
\* throws
ThrownBy(pushed, sent) ==
    LET idx == SelectSeq([j \in 1 .. Len(pushed) |-> j],
                         LAMBDA j : pushed[j] \in consumer)
    IN  [n \in 1 .. Len(idx) |->
            [error |-> ConsumerError(pushed[idx[n]]),
             after |-> Len(sent) + idx[n]]]

\* C32: in the step that flushes the buffer, when the "data" handler throws
\* on a buffered file, every buffered file and then the current file are
\* still pushed in order, the buffer is emptied, the latch is set, the
\* callback is called without an error and one 'error' event is emitted
\* for each push that threw
C32_FlushSurvivesConsumerThrow ==
    [][ (~_all /\ _all' /\ \E k \in Range(Held) : k \in consumer) =>
            LET pushed == Append(Held, Len(received'))
            IN  /\ emitted' = emitted \o pushed
                /\ _bufferedFiles' = Array(<< >>)
                /\ status' = "open"
                /\ callbacks' = Append(callbacks,
                                       [file |-> Len(received'), error |-> Null])
                /\ signals' = signals \o ThrownBy(pushed, emitted) ]_vars

\* two files were held, the third set the latch, and the "data" handler
\* threw on the first of the held files: all three were pushed
C32_Witness ==
    /\ Len(received) = 3
    /\ ~perFileMode
    /\ _destStats # Null
    /\ _extraStats = Null
    /\ \A k \in 1 .. 2 : received[k].stat # Null
                         /\ received[k].stat[_timestamp] <= _destStats[_timestamp]
    /\ 1 \in consumer
    /\ _all
    /\ emitted = << 1, 2, 3 >>
    /\ _bufferedFiles = Array(<< >>)
    /\ \E n \in 1 .. Len(signals) : signals[n] = [error |-> ConsumerError(1), after |-> 1]
    /\ callbacks[3] = [file |-> 3, error |-> Null]

\* ------------------------------------------------------------------------
\* The inline synchronous implementation: its constructor, _getExtraStats,
\* _checkOptions and _flush are those of the refactored one, line for line;
\* its _transform does everything itself and the class does not override
\* push.
\* ------------------------------------------------------------------------

\* the path the inline _transform stats for srcFile
inlineDestFileJoined(srcFile) ==
    LET relative == srcFile.relative
        ext      == extname(relative)
        replaced == IF _ext # NoString
                    THEN SubSeq(relative, 1, Len(relative) - Len(ext)) \o _ext
                    ELSE relative
        destFileRelative == IF _map # "none"
                            THEN ApplyMap(_map, replaced)
                            ELSE replaced
    IN  IF _dest # NoString
        THEN join(_dest, destFileRelative)
        ELSE destFileRelative

\* Transform.push as the inline class inherits it, called for each of
\* pushed in turn: what the "data" handler throws is not caught, so the
\* first throw ends the calls; the file it was thrown for did reach the
\* handler.  thrown is the exception, Null when every push returned.
RECURSIVE inlinePush(_, _)
inlinePush(pushed, out) ==
    IF pushed = << >>
    THEN [emitted |-> out, thrown |-> Null]
    ELSE LET chunk == Head(pushed)
             got   == Append(out, chunk)
         IN  IF chunk \in consumer
             THEN [emitted |-> got, thrown |-> ConsumerError(chunk)]
             ELSE inlinePush(Tail(pushed), got)

\* the engine of the inline implementation as its constructor leaves it
inlineEngine ==
    [_bufferedFiles |-> Null, _all |-> FALSE, status |-> "open",
     emitted |-> << >>, errors |-> << >>, signals |-> << >>]

\* the inline _transform for srcFile, file i of the stream, on the engine
\* self: found is what fs.statSync finds at the file's destination.  An
\* exception leaves _transform where it is raised, with the assignments made
\* before it.
inlineTransform(self, srcFile, i, found) ==
    IF srcFile = NoFile \/ srcFile.stat = Null
    THEN LET err == PluginError("Expected a source file with stats")
         IN  [self EXCEPT !.status = "errored",
                          !.errors = Append(@, err),
                          !.signals = Append(@, [error |-> err,
                                                 after |-> Len(self.emitted)])]
    ELSE LET perFile   == (_destStats # Null /\ _destStats.isDir)
                          \/ _ext # NoString \/ _map # "none"
             stat      == IF perFile
                          THEN IF found.kind = "Error"
                               THEN IF found.code = "ENOENT"
                                    THEN Return(Null)
                                    ELSE Throw(found)
                               ELSE Return(found)
                          ELSE Return(_destStats)
             buffer    == IF ~perFile /\ self._bufferedFiles = Null
                          THEN Array(<< >>)
                          ELSE self._bufferedFiles
             held      == [self EXCEPT !._bufferedFiles = buffer]
             timestamp == _timestamp
         IN  IF stat.threw
             THEN [held EXCEPT !.status = "thrown",
                               !.errors = Append(@, stat.error)]
             ELSE LET destStats == stat.value
                  IN  IF _extraStats # Null /\ destStats = Null
                      THEN [held EXCEPT !.status = "thrown",
                                        !.errors = Append(@, [kind |-> "TypeError"])]
                      ELSE LET newer == (destStats = Null
                                           \/ srcFile.stat[timestamp] > destStats[timestamp])
                                        \/ (_extraStats # Null
                                            /\ _extraStats[timestamp] > destStats[timestamp])
                           IN  IF self._all \/ (newer /\ buffer = Null)
                               THEN LET sent == inlinePush(<< i >>, self.emitted)
                                    IN  IF sent.thrown # Null
                                        THEN [held EXCEPT !.emitted = sent.emitted,
                                                          !.status = "thrown",
                                                          !.errors = Append(@, sent.thrown)]
                                        ELSE [held EXCEPT !.emitted = sent.emitted]
                               ELSE IF ~newer
                               THEN IF buffer # Null
                                    THEN [held EXCEPT !._bufferedFiles =
                                                          Array(Append(buffer.items, i))]
                                    ELSE held
                               ELSE LET flushed == inlinePush(buffer.items, self.emitted)
                                    IN  IF flushed.thrown # Null
                                        THEN [held EXCEPT !.emitted = flushed.emitted,
                                                          !.status = "thrown",
                                                          !.errors = Append(@, flushed.thrown)]
                                        ELSE LET sent == inlinePush(<< i >>, flushed.emitted)
                                                 drained == [held EXCEPT !._bufferedFiles = Array(<< >>),
                                                                      !._all = TRUE,
                                                                      !.emitted = sent.emitted]
                                             IN  IF sent.thrown # Null
                                                 THEN [drained EXCEPT !.status = "thrown",
                                                                   !.errors = Append(@, sent.thrown)]
                                                 ELSE drained

\* the inline _flush
inlineFlush(self) ==
    [self EXCEPT !._bufferedFiles = Null, !.status = "ended"]

\* the inline engine after the first n of the files written so far, on the
\* snapshot; no file is processed after an exception or an error
RECURSIVE inlineRun(_)
inlineRun(n) ==
    IF n = 0
    THEN inlineEngine
    ELSE LET before  == inlineRun(n - 1)
             srcFile == received[n]
             path    == inlineDestFileJoined(srcFile)
         IN  IF before.status # "open"
             THEN before
             ELSE inlineTransform(before, srcFile, n,
                                  IF srcFile # NoFile /\ path \in DOMAIN fs
                                  THEN fs[path]
                                  ELSE StatError("ENOENT"))

\* the inline engine given what the refactored one was given so far: the
\* files written and, if it was reached, the end of the stream
inlineNow ==
    LET ran == inlineRun(Len(received))
    IN  IF status = "ended" /\ ran.status = "open" THEN inlineFlush(ran) ELSE ran

\* C33: on the same configuration, snapshot and files the refactored and the
\* inline implementation are in the same state after every step: the same
\* latch and buffer, the same files emitted, the same errors and 'error'
\* events
C33_SameStep ==
    status # "failed" =>
        /\ inlineNow._all = _all
        /\ inlineNow._bufferedFiles = _bufferedFiles
        /\ inlineNow.emitted = emitted
        /\ inlineNow.status = status
        /\ inlineNow.errors = errors
        /\ inlineNow.signals = signals

====
